---- MODULE Spec2Model ----
(***************************************************************************)
(* reefer: discordance detection on blasr alignments (func deletions) and  *)
(* breakpoint refinement by paired local alignment (func refiner.adjust).  *)
(*                                                                         *)
(* One run of deletions is modelled: the two header comments, then for     *)
(* every record read the CIGAR cost walk, the sliding mean, the scan of    *)
(* the smoothed costs, the refinement of every retained event and the      *)
(* write of its feature.                                                   *)
(***************************************************************************)
EXTENDS Integers, Sequences, FiniteSets, TLC

\* ------------------------------------------------------------------------
\* Bounds of the model.
\* ------------------------------------------------------------------------
MaxOps == 3         \* CIGAR operations per record
MaxOpLen == 2       \* length of one CIGAR operation
MaxWindow == 2      \* smoothing window
MaxMinSize == 1     \* minimum feature size
MaxRecords == 2     \* records read in one run
MaxSegs == 1        \* aligned segments in one local alignment
MaxRefWindow == 2   \* refiner: reference window
MaxQueryWindow == 3 \* refiner: read window
MaxQueryGap == 1    \* refiner: minimum read gap
MaxRefFlank == 2    \* refiner: minimum reference flank
MaxGroup == 1       \* net: highest group number
MaxFeatStart == 1   \* net: highest start of a feature
MaxFeatLen == 2     \* net: length of a feature
MaxSeqs == 3         \* bundle: sequences in the input file
MaxSeqLen == 3       \* bundle: length of a sequence
MaxBundle == 3       \* bundle: -bundle and -cut

\* ------------------------------------------------------------------------
\* Small helpers.
\* ------------------------------------------------------------------------
max(a, b) == IF a > b THEN a ELSE b

min(a, b) == IF a < b THEN a ELSE b

\* Go's int(x) of the rational n/m (m > 0): truncation towards zero.
GoInt(n, m) == IF n >= 0 THEN n \div m ELSE -((-n) \div m)

\* Go's integer division a/b for b > 0: truncation towards zero.
GoDiv(a, b) == GoInt(a, b)

\* ------------------------------------------------------------------------
\* CIGAR operations (sam.CigarOpType) and the cost table of deletions.
\* ------------------------------------------------------------------------
Kinds == {"M", "I", "D", "N", "S", "H", "P", "=", "X", "B"}

\* The kinds a blasr run with soft clipping and =/X CIGARs writes.
BlasrKinds == {"=", "X", "I", "D"}

\* A cost table that leaves deletions free.
costFreeDeletion == [k \in Kinds |->
           CASE k = "I" -> -2
             [] k = "=" -> 1
             [] k = "X" -> -1
             [] OTHER -> 0]

cost == [k \in Kinds |->
           CASE k = "I" -> -2
             [] k = "D" -> -2
             [] k = "=" -> 1
             [] k = "X" -> -1
             [] OTHER -> 0]

\* sam.CigarOpType.Consumes.
Consumes == [k \in Kinds |->
               CASE k \in {"M", "=", "X"} -> [Reference |-> 1, Query |-> 1]
                 [] k \in {"I", "S"} -> [Reference |-> 0, Query |-> 1]
                 [] k \in {"D", "N"} -> [Reference |-> 1, Query |-> 0]
                 [] k = "B" -> [Reference |-> -1, Query |-> 0]
                 [] OTHER -> [Reference |-> 0, Query |-> 0]]

\* One unit per operation, whatever its length.
UnitsPerOperation(cigar) == [j \in 1..Len(cigar) |-> cigar[j].type]

\* The units of a CIGAR: every operation repeated Len times.
RECURSIVE Units(_)
Units(cigar) ==
    IF cigar = <<>> THEN <<>>
    ELSE [j \in 1..Head(cigar).len |-> Head(cigar).type] \o Units(Tail(cigar))

\* Sum of f[lo..hi], halving the range.
RECURSIVE SumRange(_, _, _)
SumRange(f, lo, hi) ==
    IF lo > hi THEN 0
    ELSE IF lo = hi THEN f[lo]
    ELSE LET mid == (lo + hi) \div 2
         IN  SumRange(f, lo, mid) + SumRange(f, mid + 1, hi)

\* A walk whose samples carry the positions held after their unit.
WalkAfter(units, ref, query) ==
    LET refs == [j \in 1..Len(units) |-> Consumes[units[j]].Reference]
        queries == [j \in 1..Len(units) |-> Consumes[units[j]].Query]
    IN  [j \in 1..Len(units) |->
            [ref |-> ref + SumRange(refs, 1, j),
             query |-> query + SumRange(queries, 1, j),
             cost |-> cost[units[j]]]]

\* The cost walk: one costPos per unit, carrying the positions held before
\* the unit is consumed (ref += consume.Reference, query += consume.Query
\* after every unit).
Walk(units, ref, query) ==
    LET refs == [j \in 1..Len(units) |-> Consumes[units[j]].Reference]
        queries == [j \in 1..Len(units) |-> Consumes[units[j]].Query]
    IN  [j \in 1..Len(units) |->
            [ref |-> ref + SumRange(refs, 1, j - 1),
             query |-> query + SumRange(queries, 1, j - 1),
             cost |-> cost[units[j]]]]

Scores(rec) == Walk(Units(rec.cigar), rec.pos, 0)

RECURSIVE SumOf(_, _)
SumOf(c, f) == IF c = <<>> THEN 0 ELSE Head(c)[f] + SumOf(Tail(c), f)

\* A mean whose positions are truncated: int(float(sum)/scale).
meanTruncated(c) ==
    [cost |-> [num |-> SumOf(c, "cost"), den |-> Len(c)],
     ref |-> GoInt(SumOf(c, "ref"), Len(c)),
     query |-> GoInt(SumOf(c, "query"), Len(c))]

\* mean of a window: the cost is the exact quotient num/den; the positions
\* are int(float(sum)/scale + 0.5).
mean(c) ==
    [cost |-> [num |-> SumOf(c, "cost"), den |-> Len(c)],
     ref |-> GoInt(2 * SumOf(c, "ref") + Len(c), 2 * Len(c)),
     query |-> GoInt(2 * SumOf(c, "query") + Len(c), 2 * Len(c))]

\* A smoothing that keeps the last full window.
SmoothedLastWindow(scores, w) ==
    [i \in 1..(Len(scores) - w + 1) |-> mean(SubSeq(scores, i, i + w - 1))]

\* smoothed[i] = mean(scores[i : i+window]) for i < len(scores)-window.
Smoothed(scores, w) ==
    [i \in 1..(Len(scores) - w) |-> mean(SubSeq(scores, i, i + w - 1))]

Neg(c) == c.num < 0

\* ------------------------------------------------------------------------
\* Inputs: records of the alignment file, refiner configurations, local
\* alignments.
\* ------------------------------------------------------------------------
Ops(kinds) == [type : kinds, len : 1..MaxOpLen]

RECURSIVE Cigars(_, _)
Cigars(kinds, n) ==
    IF n = 0 THEN {<<>>}
    ELSE LET shorter == Cigars(kinds, n - 1)
         IN  shorter \cup {<<o>> \o c : o \in Ops(kinds), c \in {x \in shorter : Len(x) = n - 1}}

QueryLen(units) ==
    SumRange([j \in 1..Len(units) |-> Consumes[units[j]].Query], 1, Len(units))

\* A sam.Record: Pos is -1 for a record without a position; Seq.Length is
\* the number of read bases its CIGAR accounts for.
MakeRecord(cigar, pos, rev) ==
    [cigar |-> cigar, pos |-> pos, reverse |-> rev, refName |-> "chr1",
     seqLen |-> QueryLen(Units(cigar))]

\* Adjacent operations of a CIGAR differ in kind.
Merged(cigar) == \A j \in 1..(Len(cigar) - 1) : cigar[j].type # cigar[j + 1].type

SmallCigars ==
    {c \in Cigars(BlasrKinds, MaxOps) : Merged(c)} \cup Cigars(Kinds, 1)

\* Single units of kind t and of kind = in turn, t first and last: a negative
\* run at the head of the record, runs between matches, a run at its tail.
Alternating(t) ==
    [j \in 1..(2 * MaxOps + 1) |-> [type |-> IF j % 2 = 1 THEN t ELSE "=", len |-> 1]]

\* A record that steps back on the reference and then matches.
BackAndMatch == <<[type |-> "B", len |-> MaxOpLen], [type |-> "=", len |-> 1]>>

\* A record that steps back on the reference between two mismatches.
BackBetweenEvents ==
    <<[type |-> "=", len |-> 1], [type |-> "X", len |-> 1], [type |-> "=", len |-> 1],
      [type |-> "B", len |-> MaxOpLen], [type |-> "X", len |-> 1],
      [type |-> "=", len |-> MaxOpLen]>>

\* A record with an insertion longer than one operation of the others, far
\* enough from both ends of the read for the read windows of the refiner.
LongInsertion ==
    <<[type |-> "=", len |-> MaxOpLen + 1], [type |-> "I", len |-> MaxOpLen + 1],
      [type |-> "=", len |-> MaxOpLen + 2]>>

\* Records at position 1, single operations without a position, and at
\* position 0 the record that steps back.
SmallRecords ==
    {MakeRecord(c, 1, rev) : c \in SmallCigars \ {<<>>}, rev \in BOOLEAN}
      \cup {MakeRecord(c, -1, rev) : c \in Cigars(Kinds, 1) \ {<<>>}, rev \in BOOLEAN}
      \cup {MakeRecord(Alternating(t), 1, rev) : t \in BlasrKinds \ {"="}, rev \in BOOLEAN}
      \cup {MakeRecord(BackAndMatch, 0, rev) : rev \in BOOLEAN}
      \cup {MakeRecord(BackBetweenEvents, 1, rev) : rev \in BOOLEAN}
      \cup {MakeRecord(LongInsertion, 1, rev) : rev \in BOOLEAN}

\* The records that may follow the first one: an event of every blasr kind
\* between two full flanks, on the plus strand.
FollowRecords ==
    {MakeRecord(<<[type |-> "=", len |-> MaxOpLen], [type |-> t, len |-> MaxOpLen],
                  [type |-> "=", len |-> MaxOpLen]>>, 1, FALSE) :
        t \in BlasrKinds \ {"="}}

\* The end-to-end scenario: a clean deletion, 50 =, 80 D, 50 =, read with
\* -window 10 -min 50.
Scenario == [flank |-> 50, del |-> 80, window |-> 10, minsize |-> 50]

ScenarioRecords ==
    {MakeRecord(<<[type |-> "=", len |-> Scenario.flank],
                  [type |-> "D", len |-> Scenario.del],
                  [type |-> "=", len |-> Scenario.flank]>>, p, rev) :
        p \in {0, 1}, rev \in BOOLEAN}

\* No record: the zero value of the loop's variables.
NoRecord == [cigar |-> <<>>, pos |-> 0, reverse |-> FALSE, refName |-> "", seqLen |-> 0]

\* The zero deletion; record is the number of the record it belongs to, 0
\* for a nil record.
NoDeletion == [record |-> 0, rstart |-> 0, rend |-> 0, dup |-> 0, qstart |-> 0, qend |-> 0]

\* ------------------------------------------------------------------------
\* Local alignment (align.SW.Align of biogo): an error, or an ordered list
\* of aligned segment pairs inside the two sequences, empty when nothing
\* aligns.  Features()[0] is the reference side, Features()[1] the query.
\* ------------------------------------------------------------------------
Segments(n, m) ==
    {[j \in 0..1 |-> IF j = 0 THEN [start |-> s, end |-> s + k]
                              ELSE [start |-> t, end |-> t + k]] :
        <<k, s, t>> \in {x \in (1..min(n, m)) \X (0..n) \X (0..m) :
                            x[2] + x[1] <= n /\ x[3] + x[1] <= m}}

\* Two segments follow each other, with a gap on at least one side.
Follows(a, b) ==
    /\ a[0].end <= b[0].start
    /\ a[1].end <= b[1].start
    /\ a[0].end + a[1].end < b[0].start + b[1].start

RECURSIVE Chains(_, _, _)
Chains(n, m, len) ==
    IF len = 0 THEN {<<>>}
    ELSE LET shorter == Chains(n, m, len - 1)
         IN  shorter \cup
             {c \o <<g>> : c \in {x \in shorter : Len(x) = len - 1}, g \in Segments(n, m)}

WellFormed(aln) == \A j \in 1..(Len(aln) - 1) : Follows(aln[j], aln[j + 1])

Alignments(n, m) ==
    {[err |-> FALSE, aln |-> a] : a \in {c \in Chains(n, m, MaxSegs) : WellFormed(c)}}
      \cup {[err |-> TRUE, aln |-> <<>>]}

NotAligned == [err |-> FALSE, aln |-> <<>>]

\* ------------------------------------------------------------------------
\* refiner.adjust.
\* ------------------------------------------------------------------------
NoRefiner == [nil |-> TRUE, refWindow |-> 0, queryWindow |-> 0, minQueryGap |-> 0,
              minRefFlank |-> 0, ref |-> [n \in {} |-> 0]]

\* Read windows of queryWindow bases on both sides of the midpoint.
WindowsFromMidpoint(r, d, rec) ==
    LET rOff == max(0, d.rstart - GoDiv(r.refWindow, 2))
        rHi == min(d.rend + GoDiv(r.refWindow, 2), r.ref[rec.refName])
        qOffRight == GoDiv(d.qstart + d.qend, 2)
        qOffLeft == max(0, qOffRight - r.queryWindow)
        qHi == min(qOffRight + r.queryWindow, rec.seqLen)
    IN  [rOff |-> rOff, rHi |-> rHi, qOffLeft |-> qOffLeft, qOffRight |-> qOffRight,
         qHi |-> qHi]

\* Windows whose right read window starts at the end of the event.
WindowsRightFromEnd(r, d, rec) ==
    LET rOff == max(0, d.rstart - GoDiv(r.refWindow, 2))
        rHi == min(d.rend + GoDiv(r.refWindow, 2), r.ref[rec.refName])
        qOffLeft == max(0, d.qstart - r.queryWindow)
        qOffRight == d.qend
        qHi == min(d.qend + r.queryWindow, rec.seqLen)
    IN  [rOff |-> rOff, rHi |-> rHi, qOffLeft |-> qOffLeft, qOffRight |-> qOffRight,
         qHi |-> qHi]

\* Windows taken around the start of the event alone.
WindowsAroundStart(r, d, rec) ==
    LET rOff == max(0, d.rstart - GoDiv(r.refWindow, 2))
        rHi == min(d.rstart + GoDiv(r.refWindow, 2), r.ref[rec.refName])
        qOffLeft == max(0, d.qstart - r.queryWindow)
        qOffRight == GoDiv(d.qstart + d.qend, 2)
        qHi == min(d.qstart + r.queryWindow, rec.seqLen)
    IN  [rOff |-> rOff, rHi |-> rHi, qOffLeft |-> qOffLeft, qOffRight |-> qOffRight,
         qHi |-> qHi]

\* The slices adjust takes: rs.Seq = ref.Seq[rOff:rHi], qsl.Seq =
\* q[qOffLeft:qOffRight], qsr.Seq = q[qOffRight:qHi].
Windows(r, d, rec) ==
    LET rOff == max(0, d.rstart - GoDiv(r.refWindow, 2))
        rHi == min(d.rend + GoDiv(r.refWindow, 2), r.ref[rec.refName])
        qOffLeft == max(0, d.qstart - r.queryWindow)
        qOffRight == GoDiv(d.qstart + d.qend, 2)
        qHi == min(d.qend + r.queryWindow, rec.seqLen)
    IN  [rOff |-> rOff, rHi |-> rHi, qOffLeft |-> qOffLeft, qOffRight |-> qOffRight,
         qHi |-> qHi]

\* The comparison of the two spans inverted.
NotInsertionInverted(d) == d.qend - d.qstart > d.rend - d.rstart

\* if d.qend-d.qstart < d.rend-d.rstart: do not do any work for deletions.
NotInsertion(d) == d.qend - d.qstart < d.rend - d.rstart

\* adjust reaches the slicing of its windows.
Attempted(r, d, rec) ==
    /\ ~r.nil
    /\ ~NotInsertion(d)
    /\ rec.refName \in DOMAIN r.ref

\* A failure that returns the zero deletion.
FailedZero(d, reason, n) ==
    [d |-> NoDeletion, ok |-> FALSE, err |-> reason, panic |-> FALSE, aligns |-> n]

\* return d, false, err after n calls of Align.
Failed(d, reason, n) ==
    [d |-> d, ok |-> FALSE, err |-> reason, panic |-> FALSE, aligns |-> n]

\* A run-time panic of adjust after n calls of Align.
Panicked(d, reason, n) ==
    [d |-> d, ok |-> FALSE, err |-> reason, panic |-> TRUE, aligns |-> n]

\* A placement that never collapses the two anchors.
PlaceColinear(d, rstart, rend) == [d EXCEPT !.rstart = rstart, !.rend = rend]

\* The refined reference coordinates: d.rstart, d.rend from the two anchors,
\* collapsed with a duplication length when they are not colinear.
Place(d, rstart, rend) ==
    IF rend <= rstart
    THEN [d EXCEPT !.dup = rstart - rend, !.rstart = rend, !.rend = rend]
    ELSE [d EXCEPT !.rstart = rstart, !.rend = rend]

\* if flank := right[0].Start(); flank < r.minRefFlank
ShortRightFlank(r, right) == right[0].start < r.minRefFlank

\* The left anchor measured from the left edge of the window.
ShortLeftFlankFromLeft(r, left, lenRs) == left[0].end < r.minRefFlank

\* if flank := left[0].End(); len(rs.Seq)-flank < r.minRefFlank
ShortLeftFlank(r, left, lenRs) == lenRs - left[0].end < r.minRefFlank

\* adjust(d) of refiner r for record rec, alnl and alnr being what the two
\* calls of r.sw.Align return.  err is "" for a nil error.
adjust(r, d, rec, alnl, alnr) ==
    IF r.nil THEN Failed(d, "", 0)
    ELSE IF NotInsertion(d) THEN Failed(d, "not an insertion", 0)
    ELSE IF rec.refName \notin DOMAIN r.ref THEN Failed(d, "no reference sequence", 0)
    ELSE
    LET w == Windows(r, d, rec)
        lenRs == w.rHi - w.rOff
    IN
    IF w.rOff > w.rHi THEN Panicked(d, "slice bounds out of range", 0)
    ELSE IF w.qOffLeft > w.qOffRight \/ w.qOffRight > rec.seqLen
         THEN Panicked(d, "slice bounds out of range", 0)
    ELSE IF alnl.err THEN Failed(d, "align", 1)
    ELSE IF w.qOffRight > w.qHi THEN Panicked(d, "slice bounds out of range", 1)
    ELSE IF alnr.err THEN Failed(d, "align", 2)
    ELSE IF alnl.aln = <<>> \/ alnr.aln = <<>> THEN Panicked(d, "index out of range", 2)
    ELSE
    LET left == alnl.aln[Len(alnl.aln)]
        right == alnr.aln[1]
        centrel == r.queryWindow + GoDiv(d.qend - d.qstart, 2)
        centrer == 0
        placed == Place(d, w.rOff + left[0].end, w.rOff + right[0].start)
    IN
    IF ShortRightFlank(r, right) THEN Failed(d, "right ref flank", 2)
    ELSE IF ShortLeftFlank(r, left, lenRs) THEN Failed(d, "left ref flank", 2)
    ELSE IF centrel - left[1].end < r.minQueryGap THEN Failed(d, "left query gap", 2)
    ELSE IF right[1].start - centrer < r.minQueryGap THEN Failed(d, "right query gap", 2)
    ELSE [d |-> [placed EXCEPT !.qstart = w.qOffLeft + left[1].end,
                               !.qend = w.qOffRight + right[1].start],
          ok |-> TRUE, err |-> "", panic |-> FALSE, aligns |-> 2]

\* What the two calls of Align may return for the windows of d.
LeftAlignments(r, d, rec) ==
    LET w == Windows(r, d, rec)
    IN  IF Attempted(r, d, rec) /\ w.rOff <= w.rHi /\ w.qOffLeft <= w.qOffRight
           /\ w.qOffRight <= rec.seqLen
        THEN Alignments(w.rHi - w.rOff, w.qOffRight - w.qOffLeft)
        ELSE {NotAligned}

RightAlignments(r, d, rec, alnl) ==
    LET w == Windows(r, d, rec)
    IN  IF Attempted(r, d, rec) /\ w.rOff <= w.rHi /\ w.qOffLeft <= w.qOffRight
           /\ w.qOffRight <= w.qHi /\ ~alnl.err
        THEN Alignments(w.rHi - w.rOff, w.qHi - w.qOffRight)
        ELSE {NotAligned}

\* ------------------------------------------------------------------------
\* Configurations of one run.
\* ------------------------------------------------------------------------
\* Length of the contig chr1: every record of the file lies inside it.
SmallContigLen == 1 + max(max(MaxOps * MaxOpLen, 2 * MaxOps + 1), 2 * MaxOpLen + 3)

ScenarioContigLen == 1 + 2 * Scenario.flank + Scenario.del

Refiners(len) ==
    [nil : {FALSE}, refWindow : {0, MaxRefWindow}, queryWindow : {0, MaxQueryWindow},
     minQueryGap : {0, MaxQueryGap}, minRefFlank : {0, MaxRefFlank},
     ref : {[n \in {"chr1"} |-> len]}]

\* The refiner of the default flags, scaled to the bounds of the model, and
\* the same refiner built from a reference file that lacks the contig.
DefaultRefiner(len) ==
    [nil |-> FALSE, refWindow |-> MaxRefWindow, queryWindow |-> MaxQueryWindow,
     minQueryGap |-> MaxQueryGap, minRefFlank |-> MaxRefFlank,
     ref |-> [n \in {"chr1"} |-> len]]

NoContig(len) == [DefaultRefiner(len) EXCEPT !.ref = [n \in {"chrUn"} |-> len]]

BasicRefiners(len) == {NoRefiner, DefaultRefiner(len), NoContig(len)}


\* ------------------------------------------------------------------------
\* net: the set operations on pressed events (cmd/net).
\* ------------------------------------------------------------------------
\* The features of a pressed file as events() returns them, one a group.
NetFeatures ==
    {[SeqName |-> "chr1", FeatStart |-> st, FeatEnd |-> st + n] :
        st \in 0..MaxFeatStart, n \in 1..MaxFeatLen}
      \cup {[SeqName |-> "chr2", FeatStart |-> 0, FeatEnd |-> MaxFeatLen]}

\* The values of -thresh, as fractions: a half and the default, 0.90.
Thresholds == {[num |-> 1, den |-> 2], [num |-> 9, den |-> 10]}

\* A set of events: map[int]*gff.Feature, from the group number.
EventSets ==
    UNION {[g -> NetFeatures] : g \in SUBSET (0..MaxGroup)}

\* func intersection(a, b *gff.Feature) int
intersection(a, b) ==
    IF a.SeqName # b.SeqName THEN 0
    ELSE max(0, min(a.FeatEnd, b.FeatEnd) - max(a.FeatStart, b.FeatStart))

\* jaccard(a, b) >= thresh: n / (a.Len() + b.Len() - n) against the
\* fraction thresh; the quotient of two zeros is not a number and compares
\* false.
jaccardAtLeast(a, b, thresh) ==
    LET n == intersection(a, b)
        u == (a.FeatEnd - a.FeatStart) + (b.FeatEnd - b.FeatStart) - n
    IN  u > 0 /\ n * thresh.den >= thresh.num * u

\* The features the two maps point to, each with its attributes: Group and
\* Repeat after events().
Heap(a, b) ==
    [id \in {<<"a", g>> : g \in DOMAIN a} \cup {<<"b", g>> : g \in DOMAIN b} |->
        LET f == IF id[1] = "a" THEN a[id[2]] ELSE b[id[2]]
        IN  [SeqName |-> f.SeqName, FeatStart |-> f.FeatStart, FeatEnd |-> f.FeatEnd,
             FeatAttributes |-> <<<<"Group", id[2]>>, <<"Repeat", "">>>>]]

\* The orders in which a range over a map may produce the members of S.
Orders(S) ==
    {o \in [1..Cardinality(S) -> S] : \A i, j \in 1..Cardinality(S) : o[i] = o[j] => i = j}

\* net is not running.
NoNet == [pc |-> "none"]

\* bundle is not running.
NoBundle == [pc |-> "none"]

VARIABLES
    window,     \* flag -window
    minsize,    \* flag -min
    verbose,    \* flag -v
    br,         \* the refiner, NoRefiner when -refine is off
    pc,         \* position of deletions: header, read, scan, adjust, emit, done, panic
    err,        \* the error deletions returns: "nil", "read" or "write"
    nread,      \* records read so far
    r,          \* the record being processed
    scores,     \* its cost signal
    smoothed,   \* its smoothed cost signal
    k,          \* index of the previous sample of the scan (smoothed[i])
    d,          \* the fold state of the scan
    refined,    \* ok of the last call of adjust
    aerr,       \* err of the last call of adjust
    gf,         \* the gff.Feature reused for every write
    out,        \* the sink: comments and features written, and a failed write
    logged,     \* entries written to the log
    closed,     \* history: the events the scan of r has closed so far
    ncand,      \* history: events that passed the size filter in this run
    given,      \* history: the event handed to the last call of adjust
    call,       \* history: the calls of Align and the anchors of that call
    got,        \* history: what the last call of sr.Read returned
    calls,      \* history: the invocations of adjust that are compared
    net,        \* net: union's a, b, thresh, c and the position in its loops
    bun         \* bundle: the flags, the scanner, i, size and the files written

vars == <<window, minsize, verbose, br, pc, err, nread, r, scores, smoothed, k, d,
          refined, aerr, gf, out, logged, closed, ncand, given, call, got,
          calls, net, bun>>

config == <<window, minsize, verbose, br>>

NoSegment == [j \in 0..1 |-> [start |-> 0, end |-> 0]]

NoCall == [aligns |-> 0, left |-> NoSegment, right |-> NoSegment]

\* No invocation of adjust yet.
NoCalls == [seen |-> {}, last |-> {}]

\* An invocation of adjust: the refiner, the event and its record, what
\* Align gives for their sequences, and the outcome.  The event is taken by
\* value: the number of its record in the file is left out.
Invocation(b, e, rec, alnl, alnr, res) ==
    [refiner |-> b, event |-> [e EXCEPT !.record = 0], record |-> rec,
     alnl |-> alnl, alnr |-> alnr,
     outcome |-> [res EXCEPT !.d.record = 0]]

\* The records the alignment file may hold.
Source ==
    IF window = Scenario.window THEN ScenarioRecords
    ELSE IF nread = 0 THEN SmallRecords
    ELSE FollowRecords

\* The records the alignment file holds at most: several small records for
\* the basic refiners, one when the parameters of the refiner vary and in
\* the end-to-end scenario.
FileLen ==
    IF br \in BasicRefiners(SmallContigLen) /\ window # Scenario.window
    THEN MaxRecords
    ELSE 1

\* The flags of the run.  The parameters of the refiner vary freely for the
\* smallest window, and take their defaults otherwise.
Init ==
    /\ verbose \in BOOLEAN
    /\ \/ /\ window \in 1..MaxWindow
          /\ minsize \in 0..MaxMinSize
          /\ br \in BasicRefiners(SmallContigLen) \cup Refiners(SmallContigLen)
          /\ br \in BasicRefiners(SmallContigLen) \/ (window = 1 /\ verbose)
       \/ /\ window = Scenario.window
          /\ minsize = Scenario.minsize
          /\ br \in BasicRefiners(ScenarioContigLen)
    /\ pc = "header"
    /\ err = "nil"
    /\ nread = 0
    /\ r = NoRecord
    /\ scores = <<>>
    /\ smoothed = <<>>
    /\ k = 0
    /\ d = NoDeletion
    /\ refined = FALSE
    /\ aerr = ""
    /\ gf = [SeqName |-> "", FeatStrand |-> "none", FeatStart |-> 0, FeatEnd |-> 0,
             nattr |-> 2, Read |-> <<>>, Dup |-> 0]
    /\ out = [comments |-> 0, features |-> <<>>, failed |-> FALSE]
    /\ logged = <<>>
    /\ closed = <<>>
    /\ ncand = 0
    /\ given = NoDeletion
    /\ call = NoCall
    /\ got = "nothing"
    /\ calls = NoCalls
    /\ net = NoNet
    /\ bun = NoBundle

\* The two header comments; a failed write returns nil.
WriteHeader ==
    /\ pc = "header"
    /\ \E written \in 0..2 :
          /\ out' = [out EXCEPT !.comments = written, !.failed = written < 2]
          /\ pc' = IF written < 2 THEN "done" ELSE "read"
    /\ UNCHANGED <<config, err, nread, r, scores, smoothed, k, d, refined, aerr, gf,
                   logged, closed, ncand, given, call, got, calls, net, bun>>

\* sr.Read returns a record: cost walk, skip of a short record, smoothing.
ReadRecord ==
    /\ pc = "read"
    /\ nread < FileLen
    /\ \E rec \in Source :
          LET sc == Scores(rec)
          IN  /\ r' = rec
              /\ scores' = sc
              /\ smoothed' = IF Len(sc) <= window THEN <<>> ELSE Smoothed(sc, window)
    /\ pc' = "scan"
    /\ nread' = nread + 1
    /\ k' = 1
    /\ d' = NoDeletion
    /\ closed' = <<>>
    /\ got' = "record"
    /\ UNCHANGED <<config, err, refined, aerr, gf, out, logged, ncand, given, call, calls, net, bun>>

\* sr.Read returns io.EOF.
ReadEOF ==
    /\ pc = "read"
    /\ pc' = "done"
    /\ err' = "nil"
    /\ got' = "EOF"
    /\ UNCHANGED <<config, nread, r, scores, smoothed, k, d, refined, aerr, gf, out,
                   logged, closed, ncand, given, call, calls, net, bun>>

\* A read error that ends the run like the end of the file.
ReadErrorSwallowed ==
    /\ pc = "read"
    /\ pc' = "done"
    /\ err' = "nil"
    /\ got' = "error"
    /\ UNCHANGED <<config, nread, r, scores, smoothed, k, d, refined, aerr, gf, out,
                   logged, closed, ncand, given, call, calls, net, bun>>

\* sr.Read returns another error.
ReadError ==
    /\ pc = "read"
    /\ pc' = "done"
    /\ err' = "read"
    /\ got' = "error"
    /\ UNCHANGED <<config, nread, r, scores, smoothed, k, d, refined, aerr, gf, out,
                   logged, closed, ncand, given, call, calls, net, bun>>

\* The loop over smoothed[1:] moves to its next sample.
NextSample ==
    /\ k' = k + 1
    /\ pc' = "scan"

\* The end of a record that leaves the fold state to the next record.
EndRecordKeepsEvent ==
    /\ pc = "scan"
    /\ k + 1 > Len(smoothed)
    /\ pc' = "read"
    /\ r' = NoRecord
    /\ scores' = <<>>
    /\ smoothed' = <<>>
    /\ k' = 0
    /\ refined' = FALSE
    /\ aerr' = ""
    /\ closed' = <<>>
    /\ given' = NoDeletion
    /\ call' = NoCall
    /\ UNCHANGED <<config, err, nread, gf, out, logged, ncand, got, d, calls, net, bun>>

\* The record is done: it was skipped (len(scores) <= window) or the loop
\* over smoothed[1:] has no sample left.  The variables of the loop body go
\* out of scope.
EndRecord ==
    /\ pc = "scan"
    /\ k + 1 > Len(smoothed)
    /\ pc' = "read"
    /\ r' = NoRecord
    /\ scores' = <<>>
    /\ smoothed' = <<>>
    /\ k' = 0
    /\ d' = NoDeletion
    /\ refined' = FALSE
    /\ aerr' = ""
    /\ closed' = <<>>
    /\ given' = NoDeletion
    /\ call' = NoCall
    /\ UNCHANGED <<config, err, nread, gf, out, logged, ncand, got, calls, net, bun>>

strandFor(rec) == IF rec.reverse THEN "minus" ELSE "plus"

\* An open case that forgets the previous sample.
OpenCaseAnySample(dd, v, prev) == dd.record = 0 /\ Neg(v.cost)

\* case d.record == nil && v.cost < 0 && smoothed[i].cost >= 0
OpenCase(dd, v, prev) == dd.record = 0 /\ Neg(v.cost) /\ ~Neg(prev.cost)

\* case d.record != nil && v.cost >= 0 && smoothed[i].cost < 0
CloseCase(dd, v, prev) == dd.record # 0 /\ ~Neg(v.cost) /\ Neg(prev.cost)

\* An event opened at smoothed[i], the sample before the current one.
OpenedAtPrevious(v, n) ==
    [NoDeletion EXCEPT !.record = n, !.rstart = smoothed[k].ref,
                       !.qstart = smoothed[k].query]

\* An event opened at the positions of the current sample itself.
OpenedAtSample(v, n) ==
    [NoDeletion EXCEPT !.record = n, !.rstart = v.ref, !.qstart = v.query]

\* d = deletion{record: r, rstart: v.ref + 1, qstart: v.query + 1}
Opened(v, n) ==
    [NoDeletion EXCEPT !.record = n, !.rstart = v.ref + 1, !.qstart = v.query + 1]

\* d.rend = v.ref; d.qend = v.query
Closed(dd, v) == [dd EXCEPT !.rend = v.ref, !.qend = v.query]

\* A filter that wants both spans to reach the minimum.
RetainedBoth(e, m) == e.rend - e.rstart >= m /\ e.qend - e.qstart >= m

\* if d.rend-d.rstart >= min || d.qend-d.qstart >= min
Retained(e, m) == e.rend - e.rstart >= m \/ e.qend - e.qstart >= m

\* A mirror that forgets to swap the two ends.
MirroredUnswapped(e, len) == [e EXCEPT !.qstart = len - e.qstart, !.qend = len - e.qend]

\* d.qstart, d.qend = len-d.qend, len-d.qstart
Mirrored(e, len) == [e EXCEPT !.qstart = len - e.qend, !.qend = len - e.qstart]

ScanOpen ==
    /\ pc = "scan"
    /\ k + 1 <= Len(smoothed)
    /\ OpenCase(d, smoothed[k + 1], smoothed[k])
    /\ d' = Opened(smoothed[k + 1], nread)
    /\ NextSample
    /\ UNCHANGED <<config, err, nread, r, scores, smoothed, refined, aerr, gf, out,
                   logged, closed, ncand, given, call, got, calls, net, bun>>

ScanClose ==
    /\ pc = "scan"
    /\ k + 1 <= Len(smoothed)
    /\ CloseCase(d, smoothed[k + 1], smoothed[k])
    /\ LET e == Closed(d, smoothed[k + 1])
       IN  /\ closed' = Append(closed, e)
           /\ IF Retained(e, minsize)
              THEN /\ gf' = [gf EXCEPT !.SeqName = r.refName, !.FeatStrand = strandFor(r)]
                   /\ d' = IF strandFor(r) = "minus" THEN Mirrored(e, r.seqLen) ELSE e
                   /\ ncand' = ncand + 1
                   /\ pc' = "adjust"
                   /\ k' = k
              ELSE /\ d' = [e EXCEPT !.record = 0]
                   /\ NextSample
                   /\ UNCHANGED <<gf, ncand>>
    /\ UNCHANGED <<config, err, nread, r, scores, smoothed, refined, aerr, out, logged,
                   given, call, got, calls, net, bun>>

\* No case of the switch applies.
ScanSkip ==
    /\ pc = "scan"
    /\ k + 1 <= Len(smoothed)
    /\ ~OpenCase(d, smoothed[k + 1], smoothed[k])
    /\ ~CloseCase(d, smoothed[k + 1], smoothed[k])
    /\ NextSample
    /\ UNCHANGED <<config, err, nread, r, scores, smoothed, d, refined, aerr, gf, out,
                   logged, closed, ncand, given, call, got, calls, net, bun>>

\* A log that takes every error, verbose or not.
LoggedAlways(log, res, v) ==
    IF res.err # "" THEN Append(log, <<res.d.record, res.err>>) ELSE log

\* if err != nil && *verbose { log.Printf("failed alignment %s: %v", ...) }
Logged(log, res, v) ==
    IF res.err # "" /\ v THEN Append(log, <<res.d.record, res.err>>) ELSE log

\* d, refined, err = br.adjust(d), and the log entry of a failed alignment.
Adjust ==
    /\ pc = "adjust"
    /\ \E alnl \in LeftAlignments(br, d, r) :
       \E alnr \in RightAlignments(br, d, r, alnl) :
          LET res == adjust(br, d, r, alnl, alnr)
          IN  /\ call' = [aligns |-> res.aligns,
                          left |-> IF res.ok THEN alnl.aln[Len(alnl.aln)] ELSE NoSegment,
                          right |-> IF res.ok THEN alnr.aln[1] ELSE NoSegment]
              /\ IF res.panic
                 THEN /\ pc' = "panic"
                      /\ UNCHANGED <<d, refined, aerr, logged>>
                 ELSE /\ pc' = "emit"
                      /\ d' = res.d
                      /\ refined' = res.ok
                      /\ aerr' = res.err
                      /\ logged' = Logged(logged, res, verbose)
    /\ given' = d
    /\ UNCHANGED <<config, err, nread, r, scores, smoothed, k, gf, out, closed, ncand, got,
                   calls, net, bun>>

\* A feature that keeps the attributes of the feature written before it.
FeatureKeepsAttributes(g, e, ok) ==
    [g EXCEPT !.FeatStart = e.rstart,
              !.FeatEnd = IF e.rstart = e.rend THEN e.rend + 1 ELSE e.rend,
              !.Dup = IF ok THEN e.dup ELSE @,
              !.Read = <<e.record, e.qstart + 1, e.qend>>]

\* gf filled in for the event e: FeatStart, FeatEnd (one more when they are
\* equal), FeatAttributes resliced to Read and Dup when refined and to Read
\* alone otherwise, and the Read value.
Feature(g, e, ok) ==
    [g EXCEPT !.FeatStart = e.rstart,
              !.FeatEnd = IF e.rstart = e.rend THEN e.rend + 1 ELSE e.rend,
              !.nattr = IF ok THEN 2 ELSE 1,
              !.Dup = IF ok THEN e.dup ELSE @,
              !.Read = <<e.record, e.qstart + 1, e.qend>>]

\* The feature of the event is filled in and written; d.record = nil.
Emit ==
    /\ pc = "emit"
    /\ LET f == Feature(gf, d, refined)
       IN  /\ gf' = f
           /\ \/ /\ out' = [out EXCEPT !.features = Append(@, f)]
                 /\ d' = [d EXCEPT !.record = 0]
                 /\ NextSample
                 /\ err' = err
              \/ /\ out' = [out EXCEPT !.failed = TRUE]
                 /\ pc' = "done"
                 /\ err' = "write"
                 /\ UNCHANGED <<d, k>>
    /\ UNCHANGED <<config, nread, r, scores, smoothed, refined, aerr, logged, closed,
                   ncand, given, call, got, calls, net, bun>>
Next ==
    \/ WriteHeader
    \/ ReadRecord
    \/ ReadEOF
    \/ ReadError
    \/ ScanOpen
    \/ ScanClose
    \/ ScanSkip
    \/ EndRecord
    \/ Adjust
    \/ Emit

Spec == Init /\ [][Next]_vars

\* ------------------------------------------------------------------------
\* adjust invoked twice on the same refiner, event and record.
\* ------------------------------------------------------------------------
\* The events handed to adjust: coordinates around the middle operation of
\* the record, colinear or not on the reference.
TwiceEvents(rec) ==
    {[record |-> 1, rstart |-> a, rend |-> b, dup |-> 0, qstart |-> c, qend |-> e] :
        <<a, b, c, e>> \in {x \in (MaxOpLen..MaxOps) \X (MaxOpLen..MaxOps)
                                     \X (MaxOpLen..MaxOps) \X (MaxOpLen..MaxOps) :
                               x[3] <= x[4] /\ x[4] <= rec.seqLen}}

TwiceInit ==
    /\ window = 1
    /\ minsize = 0
    /\ verbose = FALSE
    /\ br \in BasicRefiners(SmallContigLen) \cup Refiners(SmallContigLen)
    /\ r \in FollowRecords
    /\ d \in TwiceEvents(r)
    /\ pc = "first"
    /\ err = "nil"
    /\ nread = 1
    /\ scores = <<>>
    /\ smoothed = <<>>
    /\ k = 0
    /\ refined = FALSE
    /\ aerr = ""
    /\ gf = [SeqName |-> "", FeatStrand |-> "none", FeatStart |-> 0, FeatEnd |-> 0,
             nattr |-> 2, Read |-> <<>>, Dup |-> 0]
    /\ out = [comments |-> 0, features |-> <<>>, failed |-> FALSE]
    /\ logged = <<>>
    /\ closed = <<>>
    /\ ncand = 0
    /\ given = NoDeletion
    /\ call = NoCall
    /\ got = "record"
    /\ calls = NoCalls
    /\ net = NoNet
    /\ bun = NoBundle

\* The first invocation: refined, ok, err := br.adjust(d).  adjust takes d
\* by value and the caller keeps its own.
InvokeOnce ==
    /\ pc = "first"
    /\ \E alnl \in LeftAlignments(br, d, r) :
       \E alnr \in RightAlignments(br, d, r, alnl) :
          calls' = [seen |-> {},
                    last |-> {Invocation(br, d, r, alnl, alnr,
                                         adjust(br, d, r, alnl, alnr))}]
    /\ pc' = "second"
    /\ given' = d
    /\ UNCHANGED <<config, err, nread, r, scores, smoothed, k, d, refined, aerr, gf, out,
                   logged, closed, ncand, call, got, net, bun>>

\* A refiner that remembers the events it was given and declines them the
\* second time.
InvokeAgainRemembering ==
    /\ pc = "second"
    /\ \E a \in calls.last :
          calls' = [seen |-> calls.last,
                    last |-> {Invocation(br, d, r, a.alnl, a.alnr,
                                         IF given = d THEN Failed(d, "seen", 0)
                                         ELSE adjust(br, d, r, a.alnl, a.alnr))}]
    /\ pc' = "done"
    /\ UNCHANGED <<config, err, nread, r, scores, smoothed, k, d, refined, aerr, gf, out,
                   logged, closed, ncand, given, call, got, net, bun>>

\* The second invocation, of the same refiner on the same event: the
\* sequences being the same, Align is given what it was given before.
InvokeAgain ==
    /\ pc = "second"
    /\ \E a \in calls.last :
          calls' = [seen |-> calls.last,
                    last |-> {Invocation(br, d, r, a.alnl, a.alnr,
                                         adjust(br, d, r, a.alnl, a.alnr))}]
    /\ pc' = "done"
    /\ UNCHANGED <<config, err, nread, r, scores, smoothed, k, d, refined, aerr, gf, out,
                   logged, closed, ncand, given, call, got, net, bun>>

TwiceNext ==
    \/ InvokeOnce
    \/ InvokeAgain

TwiceSpec == TwiceInit /\ [][TwiceNext]_vars

\* ------------------------------------------------------------------------
\* net -op union: c = union(a, b, *thresh).
\* ------------------------------------------------------------------------
\* The variables of reefer, which net does not have.
reefer == <<window, minsize, verbose, br, pc, err, nread, r, scores, smoothed, k, d,
            refined, aerr, gf, out, logged, closed, ncand, given, call, got, calls>>

\* main: a and b are read by events() and union is entered.  The maps hold
\* pointers: <<"a", g>> is the feature of group g of the left file.  start
\* is the keys a has when the range over it begins.
NetInit ==
    /\ \E a \in EventSets, b \in EventSets, t \in Thresholds :
          net = [pc |-> "range",
                 a |-> [g \in DOMAIN a |-> <<"a", g>>],
                 b |-> [g \in DOMAIN b |-> <<"b", g>>],
                 heap |-> Heap(a, b),
                 thresh |-> t,
                 start |-> DOMAIN a,
                 produced |-> {},
                 ka |-> 0,
                 ea |-> <<"", 0>>,
                 kbs |-> {},
                 c |-> <<>>]
    /\ window = 1
    /\ minsize = 0
    /\ verbose = FALSE
    /\ br = NoRefiner
    /\ pc = "net"
    /\ err = "nil"
    /\ nread = 0
    /\ r = NoRecord
    /\ scores = <<>>
    /\ smoothed = <<>>
    /\ k = 0
    /\ d = NoDeletion
    /\ refined = FALSE
    /\ aerr = ""
    /\ gf = [SeqName |-> "", FeatStrand |-> "none", FeatStart |-> 0, FeatEnd |-> 0,
             nattr |-> 2, Read |-> <<>>, Dup |-> 0]
    /\ out = [comments |-> 0, features |-> <<>>, failed |-> FALSE]
    /\ logged = <<>>
    /\ closed = <<>>
    /\ ncand = 0
    /\ given = NoDeletion
    /\ call = NoCall
    /\ got = "nothing"
    /\ calls = NoCalls
    /\ bun = NoBundle

\* for ka, ea := range a, with ka >= 0: the range produces a key it has not
\* produced, of an entry that was there at the start or was created since.
UnionRange ==
    /\ net.pc = "range"
    /\ \E ka \in DOMAIN net.a \ net.produced :
          /\ ka >= 0
          /\ net' = [net EXCEPT !.pc = "inner", !.produced = @ \cup {ka}, !.ka = ka,
                                !.ea = net.a[ka], !.kbs = {}]
    /\ UNCHANGED <<reefer, bun>>

\* if ka < 0 { continue }: ignore newly added events from b.
UnionContinue ==
    /\ net.pc = "range"
    /\ \E ka \in DOMAIN net.a \ net.produced :
          /\ ka < 0
          /\ net' = [net EXCEPT !.produced = @ \cup {ka}]
    /\ UNCHANGED <<reefer, bun>>

\* for kb, eb := range b, jaccard(ea, eb) >= thresh: a[ka] gets GroupA and
\* GroupB.
UnionMatch ==
    /\ net.pc = "inner"
    /\ \E kb \in DOMAIN net.b \ net.kbs :
          /\ jaccardAtLeast(net.heap[net.ea], net.heap[net.b[kb]], net.thresh)
          /\ net' = [net EXCEPT !.kbs = @ \cup {kb},
                                !.heap[net.a[net.ka]].FeatAttributes =
                                    <<<<"GroupA", net.ka>>, <<"GroupB", kb>>>>]
    /\ UNCHANGED <<reefer, bun>>

\* for kb, eb := range b, jaccard(ea, eb) < thresh: a[ka] gets GroupA, eb
\* gets GroupB and a[-kb] = eb.
UnionAdd ==
    /\ net.pc = "inner"
    /\ \E kb \in DOMAIN net.b \ net.kbs :
          /\ ~jaccardAtLeast(net.heap[net.ea], net.heap[net.b[kb]], net.thresh)
          /\ LET heap1 == [net.heap EXCEPT ![net.a[net.ka]].FeatAttributes =
                                               <<<<"GroupA", net.ka>>>>]
                 heap2 == [heap1 EXCEPT ![net.b[kb]].FeatAttributes =
                                            <<<<"GroupB", kb>>>>]
             IN  net' = [net EXCEPT !.kbs = @ \cup {kb},
                                    !.heap = heap2,
                                    !.a = [g \in DOMAIN net.a \cup {-kb} |->
                                              IF g = -kb THEN net.b[kb] ELSE net.a[g]]]
    /\ UNCHANGED <<reefer, bun>>

\* The range over b has produced every key of b.
UnionInnerEnd ==
    /\ net.pc = "inner"
    /\ net.kbs = DOMAIN net.b
    /\ net' = [net EXCEPT !.pc = "range"]
    /\ UNCHANGED <<reefer, bun>>

\* The range over a ends when it has produced every entry that was there at
\* its start; an entry created during the range may have been skipped.
\* Then c is filled from a second range over a, in any order.
UnionCollect ==
    /\ net.pc = "range"
    /\ net.start \subseteq net.produced
    /\ \E o \in Orders(DOMAIN net.a) :
          net' = [net EXCEPT !.pc = "done",
                             !.c = [i \in 1..Cardinality(DOMAIN net.a) |-> net.a[o[i]]]]
    /\ UNCHANGED <<reefer, bun>>

NetNext ==
    \/ UnionRange
    \/ UnionContinue
    \/ UnionMatch
    \/ UnionAdd
    \/ UnionInnerEnd
    \/ UnionCollect

NetSpec == NetInit /\ [][NetNext]_vars

\* ------------------------------------------------------------------------
\* bundle: a fasta file split into files of bounded sequence length.
\* ------------------------------------------------------------------------
\* The input files: the lengths of their sequences, in order.
FastaFiles == UNION {[1..n -> 0..MaxSeqLen] : n \in 0..MaxSeqs}

\* main up to the loop: the flags are parsed, the scanner is on the input
\* and out is the file of bundle 0.  files[j + 1] is the file of bundle j:
\* the numbers of the input records written to it.
BundleInit ==
    /\ \E in \in FastaFiles, cut \in 0..MaxBundle, bundle \in 1..MaxBundle :
          bun = [pc |-> "next", in |-> in, cut |-> cut, bundle |-> bundle, read |-> 0,
                 i |-> 0, size |-> 0, files |-> <<<<>>>>, closed |-> {}]
    /\ net = NoNet
    /\ window = 1
    /\ minsize = 0
    /\ verbose = FALSE
    /\ br = NoRefiner
    /\ pc = "bundle"
    /\ err = "nil"
    /\ nread = 0
    /\ r = NoRecord
    /\ scores = <<>>
    /\ smoothed = <<>>
    /\ k = 0
    /\ d = NoDeletion
    /\ refined = FALSE
    /\ aerr = ""
    /\ gf = [SeqName |-> "", FeatStrand |-> "none", FeatStart |-> 0, FeatEnd |-> 0,
             nattr |-> 2, Read |-> <<>>, Dup |-> 0]
    /\ out = [comments |-> 0, features |-> <<>>, failed |-> FALSE]
    /\ logged = <<>>
    /\ closed = <<>>
    /\ ncand = 0
    /\ given = NoDeletion
    /\ call = NoCall
    /\ got = "nothing"
    /\ calls = NoCalls

\* sc.Next() gives a sequence: its number and its length.
BundleNext(b) == b.read + 1

BundleLen(b) == b.in[b.read + 1]

\* if sc.Seq().Len() < *cut { continue }
BundleSkip ==
    /\ bun.pc = "next"
    /\ bun.read < Len(bun.in)
    /\ BundleLen(bun) < bun.cut
    /\ bun' = [bun EXCEPT !.read = BundleNext(bun)]
    /\ UNCHANGED <<reefer, net>>

\* if size != 0 && size+sc.Seq().Len() > *bundle
StartsNewBundle(b) == b.size # 0 /\ b.size + BundleLen(b) > b.bundle

\* The sequence goes to the open bundle: size += sc.Seq().Len() and
\* fmt.Fprintf(out, ...).
BundleWrite ==
    /\ bun.pc = "next"
    /\ bun.read < Len(bun.in)
    /\ BundleLen(bun) >= bun.cut
    /\ ~StartsNewBundle(bun)
    /\ bun' = [bun EXCEPT !.read = BundleNext(bun),
                          !.size = @ + BundleLen(bun),
                          !.files[bun.i + 1] = Append(@, BundleNext(bun))]
    /\ UNCHANGED <<reefer, net>>

\* The open bundle is closed, i++, size = 0, the next file is created and
\* the sequence goes to it.
BundleRoll ==
    /\ bun.pc = "next"
    /\ bun.read < Len(bun.in)
    /\ BundleLen(bun) >= bun.cut
    /\ StartsNewBundle(bun)
    /\ bun' = [bun EXCEPT !.read = BundleNext(bun),
                          !.i = @ + 1,
                          !.size = BundleLen(bun),
                          !.closed = @ \cup {bun.i},
                          !.files = Append(@, <<BundleNext(bun)>>)]
    /\ UNCHANGED <<reefer, net>>

\* sc.Next() is false: the last bundle is closed.
BundleEnd ==
    /\ bun.pc = "next"
    /\ bun.read = Len(bun.in)
    /\ bun' = [bun EXCEPT !.pc = "done", !.closed = @ \cup {bun.i}]
    /\ UNCHANGED <<reefer, net>>

BundleStep ==
    \/ BundleSkip
    \/ BundleWrite
    \/ BundleRoll
    \/ BundleEnd

BundleSpec == BundleInit /\ [][BundleStep]_vars

\* ------------------------------------------------------------------------
\* Properties.  They are stated from the CIGAR, the flags and the samples,
\* not from the operators of the model above.
\* ------------------------------------------------------------------------
\* A record is being processed.
Live == r # NoRecord

\* Total length of the operations of a CIGAR.
TotalLen(cigar) == SumRange([j \in 1..Len(cigar) |-> cigar[j].len], 1, Len(cigar))

\* The kind of the operation that unit j of a CIGAR belongs to.
KindOfUnit(cigar, j) ==
    LET lens == [i \in 1..Len(cigar) |-> cigar[i].len]
        op == CHOOSE i \in 1..Len(cigar) :
                  SumRange(lens, 1, i - 1) < j /\ j <= SumRange(lens, 1, i)
    IN  cigar[op].type

FixedCost(kind) ==
    CASE kind = "=" -> 1
      [] kind = "X" -> -1
      [] kind = "I" -> -2
      [] kind = "D" -> -2
      [] kind = "S" -> 0
      [] OTHER -> 0

\* Samples of the scan examined so far as the current sample.
Examined == IF pc = "scan" THEN k ELSE k + 1

\* First samples of the negative runs of sm[1..n] that follow a
\* non-negative sample.
RunStarts(sm, n) == {a \in 2..n : sm[a].cost.num < 0 /\ sm[a - 1].cost.num >= 0}

\* The first non-negative sample after a within sm[1..n], 0 if there is none.
RunEnd(sm, a, n) ==
    LET after == {b \in (a + 1)..n : sm[b].cost.num >= 0}
    IN  IF after = {} THEN 0 ELSE CHOOSE b \in after : \A x \in after : b <= x

BoundedRuns(sm, n) ==
    {<<a, RunEnd(sm, a, n)>> : a \in {x \in RunStarts(sm, n) : RunEnd(sm, x, n) # 0}}

\* C1: the events closed by the scan are, in order, the negative runs of the
\* smoothed samples that are bounded by a non-negative sample on both sides;
\* a run is opened at its first sample and closed at the first non-negative
\* sample after it; a leading or a trailing run gives no event.
EventsAreBoundedRuns ==
    Live =>
        LET runs == BoundedRuns(smoothed, min(Examined, Len(smoothed)))
        IN  /\ Len(closed) = Cardinality(runs)
            /\ \A j \in 1..Len(closed) :
                  \E run \in runs :
                     /\ Cardinality({x \in runs : x[1] < run[1]}) = j - 1
                     /\ closed[j].rstart = smoothed[run[1]].ref + 1
                     /\ closed[j].qstart = smoothed[run[1]].query + 1
                     /\ closed[j].rend = smoothed[run[2]].ref
                     /\ closed[j].qend = smoothed[run[2]].query

\* C1 witness: a scan is complete that began inside a negative run and
\* closed the events of two bounded runs.
WitnessBoundedRun ==
    /\ pc = "scan"
    /\ k = Len(smoothed)
    /\ Len(closed) = 2
    /\ smoothed[1].cost.num < 0

\* C2: an open event is closed exactly when the previous smoothed cost is
\* negative and the current one is not; its end is the current sample; it is
\* retained iff its reference span or its query span reaches the minimum
\* size; the fold state is none when the scan goes on.
CloseAndRetain ==
    [][/\ (pc = "scan" /\ k + 1 <= Len(smoothed) /\ d.record # 0) =>
            LET v == smoothed[k + 1]
                e == [d EXCEPT !.rend = v.ref, !.qend = v.query]
                big == e.rend - e.rstart >= minsize \/ e.qend - e.qstart >= minsize
            IN  IF smoothed[k].cost.num < 0 /\ v.cost.num >= 0
                THEN /\ closed' = Append(closed, e)
                     /\ big <=> pc' = "adjust"
                     /\ ~big => (pc' = "scan" /\ d'.record = 0 /\ out' = out)
                ELSE d' = d /\ closed' = closed
       /\ (pc = "emit" /\ pc' = "scan") => d'.record = 0]_vars

\* C2 witness: an event is retained on its reference span alone.
WitnessOneDimension ==
    /\ pc = "adjust"
    /\ closed[Len(closed)].rend - closed[Len(closed)].rstart >= minsize
    /\ closed[Len(closed)].qend - closed[Len(closed)].qstart < minsize

\* C3: 50 =, 80 D, 50 = with window 10 and minimum size 50 give exactly one
\* event, whose reference start and end lie within window/2 of the first
\* deleted position and of the first position after the deletion.
ScenarioOneEvent ==
    (window = Scenario.window /\ pc = "scan" /\ k = Len(smoothed)) =>
        /\ Len(closed) = 1
        /\ Len(out.features) = 1
        /\ LET lo == r.pos + Scenario.flank
               hi == r.pos + Scenario.flank + Scenario.del
               half == window \div 2
               f == out.features[1]
           IN  /\ lo - half <= closed[1].rstart /\ closed[1].rstart <= lo + half
               /\ hi - half <= closed[1].rend /\ closed[1].rend <= hi + half
               /\ f.FeatStart = closed[1].rstart
               /\ f.FeatEnd = closed[1].rend

\* C3 witness: the scan of the scenario record is complete.
WitnessScenario ==
    /\ window = Scenario.window
    /\ pc = "scan"
    /\ k = Len(smoothed)
    /\ Len(scores) = 2 * Scenario.flank + Scenario.del

\* C4: a record of N cost samples gives max(0, N - window) smoothed
\* samples, sample i covering the cost samples i .. i+window-1; a record
\* with N <= window is skipped without an event.
SmoothedCount ==
    Live =>
        LET n == TotalLen(r.cigar)
        IN  /\ n <= window =>
                 /\ smoothed = <<>>
                 /\ closed = <<>>
                 /\ pc = "scan"
                 /\ \A j \in 1..Len(out.features) : out.features[j].Read[1] # nread
            /\ n > window => Len(smoothed) = n - window
            /\ \A i \in 1..Len(smoothed) :
                  smoothed[i].cost.num = SumRange([j \in 1..n |-> scores[j].cost], i, i + window - 1)

\* C4 witness: a record no longer than the window was read and skipped.
WitnessSkipped ==
    /\ Live
    /\ TotalLen(r.cigar) = window
    /\ smoothed = <<>>

\* C5: for a record with a non-negative start every smoothed cost is the
\* exact mean of its window, and every smoothed position is the mean of the
\* window's positions rounded to nearest, a half rounded up.
MeanRoundsHalfUpFromStart ==
    (Live /\ r.pos >= 0) =>
        \A i \in 1..Len(smoothed) :
           LET n == Len(scores)
               costs == SumRange([j \in 1..n |-> scores[j].cost], i, i + window - 1)
               refs == SumRange([j \in 1..n |-> scores[j].ref], i, i + window - 1)
               queries == SumRange([j \in 1..n |-> scores[j].query], i, i + window - 1)
           IN  /\ smoothed[i].cost.num * window = costs * smoothed[i].cost.den
               /\ smoothed[i].cost.den > 0
               /\ smoothed[i].ref = (2 * refs + window) \div (2 * window)
               /\ smoothed[i].query = (2 * queries + window) \div (2 * window)

\* C5 where no position is negative: for a record whose cost samples all
\* lie at non-negative reference and query positions the smoothed costs are
\* the exact means and the smoothed positions the means rounded half up.
MeanRoundsHalfUp ==
    (Live /\ \A j \in 1..Len(scores) : scores[j].ref >= 0 /\ scores[j].query >= 0) =>
        \A i \in 1..Len(smoothed) :
           LET n == Len(scores)
               costs == SumRange([j \in 1..n |-> scores[j].cost], i, i + window - 1)
               refs == SumRange([j \in 1..n |-> scores[j].ref], i, i + window - 1)
               queries == SumRange([j \in 1..n |-> scores[j].query], i, i + window - 1)
           IN  /\ smoothed[i].cost.num * window = costs * smoothed[i].cost.den
               /\ smoothed[i].cost.den > 0
               /\ smoothed[i].ref = (2 * refs + window) \div (2 * window)
               /\ smoothed[i].query = (2 * queries + window) \div (2 * window)

\* C5 witness: the mean of the non-negative reference positions of a window
\* is exactly one half above an integer, and is rounded up.
WitnessHalf ==
    /\ Live
    /\ \A j \in 1..Len(scores) : scores[j].ref >= 0 /\ scores[j].query >= 0
    /\ \E i \in 1..Len(smoothed) :
          LET refs == SumRange([j \in 1..Len(scores) |-> scores[j].ref], i, i + window - 1)
          IN  /\ (2 * refs) % (2 * window) = window
              /\ smoothed[i].ref * window > refs

\* C6: one cost sample per unit of every operation, each with the fixed
\* cost of its kind, so the costs of the units of one kind sum to their
\* number times that cost.
OneSamplePerUnit ==
    Live =>
        LET n == TotalLen(r.cigar)
        IN  /\ Len(scores) = n
            /\ \A j \in 1..n : scores[j].cost = FixedCost(KindOfUnit(r.cigar, j))
            /\ \A kind \in Kinds :
                  LET units == {j \in 1..n : KindOfUnit(r.cigar, j) = kind}
                  IN  SumRange([j \in 1..n |->
                                   IF j \in units THEN scores[j].cost ELSE 0], 1, n)
                        = Cardinality(units) * FixedCost(kind)

\* C6 witness: an operation of several units of a kind the table gives no
\* cost to.
WitnessOtherKind ==
    /\ Live
    /\ \E j \in 1..Len(r.cigar) : r.cigar[j].type = "N" /\ r.cigar[j].len = MaxOpLen
    /\ Len(scores) = MaxOpLen

QuerySpan(e) == e.qend - e.qstart

RefSpan(e) == e.rend - e.rstart

\* adjust has been called for the event `given` and has not returned to the
\* scan yet.
Adjusted == pc \in {"emit", "panic"}

\* C7 as stated: for every event whose query span does not exceed its
\* reference span adjust performs no alignment and returns the original
\* event with ok=false.
NoWorkUnlessLonger ==
    (Adjusted /\ QuerySpan(given) <= RefSpan(given)) =>
        /\ pc = "emit"
        /\ ~refined
        /\ call.aligns = 0
        /\ d = given

\* C7: refinement is attempted only when the query span of the event is at
\* least its reference span; for every event whose query span is less than
\* its reference span adjust performs no alignment and returns the original
\* event with ok=false.
NoWorkForDeletion ==
    /\ (Adjusted /\ QuerySpan(given) < RefSpan(given)) =>
          /\ pc = "emit"
          /\ ~refined
          /\ call.aligns = 0
          /\ d = given
    /\ (Adjusted /\ (call.aligns > 0 \/ refined)) => QuerySpan(given) >= RefSpan(given)

\* C7 witness: a configured refiner that holds the contig was handed a
\* deletion.
WitnessDeletionSkipped ==
    /\ pc = "emit"
    /\ ~br.nil
    /\ r.refName \in DOMAIN br.ref
    /\ QuerySpan(given) < RefSpan(given)

\* C8: whenever adjust returns ok=false the returned event equals the input
\* event in every field, and a missing contig is a skip.
FailedKeepsEvent ==
    /\ (pc = "emit" /\ ~refined) =>
          /\ d = given
          /\ aerr \in {"", "not an insertion", "no reference sequence", "align",
                       "right ref flank", "left ref flank", "left query gap",
                       "right query gap"}
          /\ aerr = "" <=> br.nil
    /\ (Adjusted /\ ~br.nil /\ r.refName \notin DOMAIN br.ref) => (pc = "emit" /\ ~refined)

\* C8 witness: both alignments were made and the query gap was too small.
WitnessLateFailure ==
    /\ pc = "emit"
    /\ ~refined
    /\ call.aligns = 2
    /\ aerr \in {"left query gap", "right query gap"}

\* C9 as stated: every candidate that passes the size filter is emitted as
\* exactly one feature whatever the outcome of refinement, and no outcome
\* aborts the run.
EveryCandidateEmitted ==
    /\ pc # "panic"
    /\ (pc \in {"scan", "read"} \/ (pc = "done" /\ ~out.failed)) =>
          Len(out.features) = ncand

\* C10: on a successful refinement, with L the window offset plus the
\* reference end of the left anchor and R the window offset plus the
\* reference start of the right anchor: R <= L gives rstart = rend = R and
\* dup = L - R; otherwise rstart = L < rend = R and dup = 0.
RefinedPlacement ==
    (pc = "emit" /\ refined) =>
        LET half == br.refWindow \div 2
            off == IF given.rstart - half > 0 THEN given.rstart - half ELSE 0
            L == off + call.left[0].end
            R == off + call.right[0].start
        IN  /\ IF R <= L
               THEN d.rstart = R /\ d.rend = R /\ d.dup = L - R
               ELSE d.rstart = L /\ d.rend = R /\ L < R /\ d.dup = 0
            /\ d.rstart <= d.rend
            /\ d.dup >= 0
            /\ d.dup > 0 => d.rstart = d.rend

\* C10 witness: the anchors of a successful refinement overlap on the
\* reference.
WitnessDuplication ==
    /\ pc = "emit"
    /\ refined
    /\ d.dup > 0

\* The reference window of an event: its offset in the contig and its length.
RefOffset(e) ==
    IF e.rstart - br.refWindow \div 2 > 0 THEN e.rstart - br.refWindow \div 2 ELSE 0

RefLength(e) ==
    LET hi == e.rend + br.refWindow \div 2
        len == br.ref[r.refName]
    IN  (IF hi < len THEN hi ELSE len) - RefOffset(e)

\* C11 as stated: adjust returns ok=true only if the left anchor lies at
\* least minRefFlank from the left edge of the reference window and the
\* right anchor at least minRefFlank from its right edge.
FlanksFromOwnEdges ==
    (pc = "emit" /\ refined) =>
        /\ call.left[0].end >= br.minRefFlank
        /\ RefLength(given) - call.right[0].start >= br.minRefFlank

\* C11: adjust returns ok=true only if the right anchor lies at least
\* minRefFlank from the left edge of the reference window and the left
\* anchor at least minRefFlank from its right edge; if either distance is
\* smaller, refinement fails with a reference-flank reason.
FlanksFromOppositeEdges ==
    /\ (pc = "emit" /\ refined) =>
          /\ call.right[0].start >= br.minRefFlank
          /\ RefLength(given) - call.left[0].end >= br.minRefFlank
    /\ pc = "adjust" =>
          \A alnl \in LeftAlignments(br, d, r) :
             \A alnr \in RightAlignments(br, d, r, alnl) :
                (alnl.aln # <<>> /\ alnr.aln # <<>>) =>
                    LET res == adjust(br, d, r, alnl, alnr)
                        left == alnl.aln[Len(alnl.aln)]
                        right == alnr.aln[1]
                    IN  (\/ right[0].start < br.minRefFlank
                         \/ RefLength(d) - left[0].end < br.minRefFlank) =>
                            /\ ~res.ok
                            /\ ~res.panic
                            /\ res.d = d
                            /\ res.err \in {"right ref flank", "left ref flank"}

\* C11 witness: a refinement succeeds with a positive minimum flank, its
\* left anchor nearer than that to the left edge of the window.
WitnessFlank ==
    /\ pc = "emit"
    /\ refined
    /\ br.minRefFlank = MaxRefFlank
    /\ call.left[0].end < br.minRefFlank

\* C12: adjust returns ok=true only if, in read coordinates, both anchors
\* are at least minQueryGap away from the midpoint of the event's query
\* coordinates, also when the left query window is clamped to start at 0.
GapsFromMidpoint ==
    (pc = "emit" /\ refined) =>
        LET m == (given.qstart + given.qend) \div 2
        IN  /\ m - d.qstart >= br.minQueryGap
            /\ d.qend - m >= br.minQueryGap

\* A feature is written in this step.
Written == Len(out'.features) = Len(out.features) + 1

\* C13 as stated: a feature carries the Dup attribute only when the
\* refinement of its event succeeded through the non-colinear case; the
\* feature of an unrefined event and that of a colinear refinement carry
\* none.
DupOnlyNonColinear ==
    [][Written =>
          LET f == out'.features[Len(out'.features)]
          IN  f.nattr = 2 <=> (refined /\ call.right[0].start <= call.left[0].end)]_vars

\* C13: a feature carries the Dup attribute exactly when the refinement of
\* its own event succeeded, with the duplication length of that event as its
\* value (0 after a colinear refinement); the feature of an unrefined event
\* carries no Dup attribute, whatever the features before it carried.
DupIffRefined ==
    [][Written =>
          LET f == out'.features[Len(out'.features)]
          IN  /\ f.nattr = 2 <=> refined
              /\ refined => f.Dup = d.dup
              /\ (refined /\ call.right[0].start > call.left[0].end) => f.Dup = 0]_vars

\* C13 witness: the feature of a refined event with a duplication was
\* written, and after it the feature of an unrefined event, without Dup.
WitnessDupThenNone ==
    /\ Len(out.features) = 2
    /\ out.features[1].nattr = 2
    /\ out.features[1].Dup > 0
    /\ out.features[2].nattr = 1

\* adjust returns in this step.
Returned == pc = "adjust" /\ pc' = "emit"

\* C14 as stated: each time adjust returns ok=false, also when the refiner
\* is not configured, it returns a non-empty reason, and an entry with the
\* read and that reason is added to the log.
EveryFailureReported ==
    [][(Returned /\ ~refined') =>
          /\ aerr' # ""
          /\ logged' = Append(logged, <<d.record, aerr'>>)]_vars

\* C14: each time a configured refiner returns ok=false it returns a
\* non-empty reason, and an entry with the read and that reason is added to
\* the log when -v is set; without -v nothing is logged, and a refiner that
\* is not configured returns ok=false without a reason and without an entry.
FailureReportedWhenVerbose ==
    [][Returned =>
          /\ ~refined' => (aerr' = "" <=> br.nil)
          /\ refined' => aerr' = ""
          /\ logged' = IF ~refined' /\ ~br.nil /\ verbose
                       THEN Append(logged, <<d.record, aerr'>>)
                       ELSE logged]_vars

\* C14 witness: with -v the second failed refinement of a run has been
\* logged with its reason.
WitnessLogged ==
    /\ pc = "emit"
    /\ verbose
    /\ ~refined
    /\ Len(logged) = 2
    /\ logged[2] = <<given.record, aerr>>

\* C15: when sr.Read returns an error that is not io.EOF deletions returns
\* that error at once: no record is read and no feature written after it;
\* at io.EOF deletions returns nil, every earlier record processed and every
\* one of their retained events written.
ReadErrorStops ==
    /\ [](got = "error" => (pc = "done" /\ err = "read"))
    /\ [](got = "EOF" =>
            (pc = "done" /\ err = "nil" /\ r = NoRecord /\ Len(out.features) = ncand))
    /\ [][(got' \in {"error", "EOF"}) =>
            /\ pc = "read"
            /\ out' = out
            /\ nread' = nread
            /\ logged' = logged]_vars
    /\ [][(got \in {"error", "EOF"}) =>
            /\ out' = out
            /\ nread' = nread
            /\ pc' = pc]_vars

\* C15 witness: the read after a record that gave a feature fails.
WitnessReadError ==
    /\ got = "error"
    /\ nread = 1
    /\ Len(out.features) = 1

\* C16: an event still open when the smoothed sequence of a record ends is
\* discarded: nothing is written for it and the fold state is none when the
\* scan of the next record begins; an open event belongs to the record being
\* scanned, and every feature written has its start and its end from two
\* samples of the record being scanned.
OpenEventDiscarded ==
    /\ [](d.record # 0 => (Live /\ d.record = nread))
    /\ [][(pc = "scan" /\ pc' = "read") => (out' = out /\ d'.record = 0)]_vars
    /\ [][(pc = "read" /\ pc' = "scan") => (d'.record = 0 /\ closed' = <<>>)]_vars
    /\ [][Written =>
            LET f == out'.features[Len(out'.features)]
                e == closed[Len(closed)]
            IN  /\ f.Read[1] = nread
                /\ e.record = nread
                /\ \E a \in 2..Len(smoothed) :
                      \E b \in (a + 1)..Len(smoothed) :
                         /\ e.rstart = smoothed[a].ref + 1
                         /\ e.qstart = smoothed[a].query + 1
                         /\ e.rend = smoothed[b].ref
                         /\ e.qend = smoothed[b].query
                         /\ ~refined => (f.FeatStart = e.rstart /\ d.rend = e.rend)
                ]_vars

\* C16 witness: the smoothed sequence of a record ends inside an open event
\* and the file holds another record.
WitnessOpenAtEnd ==
    /\ pc = "scan"
    /\ k = Len(smoothed)
    /\ d.record # 0
    /\ nread < FileLen

\* No operation of the CIGAR steps back on the reference.
NoBack(cigar) == \A j \in 1..Len(cigar) : cigar[j].type # "B"

\* C17 as stated: two consecutive events of a record, before mirroring and
\* refinement, do not overlap: the first ends before the second starts, on
\* the reference and on the read.
EventsDoNotOverlap ==
    Live =>
        \A j \in 1..(Len(closed) - 1) :
           /\ closed[j].rend < closed[j + 1].rstart
           /\ closed[j].qend < closed[j + 1].qstart

\* C17: two consecutive events of a record, before mirroring and
\* refinement, are in encounter order on the read: the first ends before the
\* second starts; on the reference the same holds when no operation of the
\* record steps back on the reference.
EventsInOrder ==
    Live =>
        \A j \in 1..(Len(closed) - 1) :
           /\ closed[j].qend < closed[j + 1].qstart
           /\ NoBack(r.cigar) => closed[j].rend < closed[j + 1].rstart

\* C17 witness: two events of a record without a step back, the second
\* opened at the sample after the one that closed the first.
WitnessTwoEvents ==
    /\ Live
    /\ NoBack(r.cigar)
    /\ Len(closed) = 2
    /\ \E b \in 2..(Len(smoothed) - 1) :
          /\ closed[1].rend = smoothed[b].ref
          /\ closed[2].rstart = smoothed[b + 1].ref + 1

\* The full length of the read of a CIGAR: the units that consume the query.
ReadLength(cigar) ==
    SumRange([j \in 1..Len(cigar) |->
                 IF cigar[j].type \in {"M", "I", "S", "=", "X"} THEN cigar[j].len ELSE 0],
             1, Len(cigar))

\* The event as the refiner is to see it: mirrored on the read for a record
\* of the minus strand.
Handed(e) ==
    IF r.reverse
    THEN [e EXCEPT !.qstart = ReadLength(r.cigar) - e.qend,
                   !.qend = ReadLength(r.cigar) - e.qstart]
    ELSE e

\* C18: for a record of the minus strand the query coordinates handed to
\* the refiner, and written when the event is not refined, are the mirror of
\* the segmenter's: length - end and length - start, length being the full
\* length of the read; for the plus strand they are unchanged.  The event
\* mirrored is one that passed the size filter, the mirror keeps the query
\* span, and mirroring twice gives the coordinates back.
MirrorOnMinus ==
    /\ [](pc \in {"adjust", "emit", "panic"} =>
            LET e == closed[Len(closed)]
                h == IF pc = "adjust" THEN d ELSE given
            IN  /\ h = Handed(e)
                /\ QuerySpan(h) = QuerySpan(e)
                /\ RefSpan(e) >= minsize \/ QuerySpan(e) >= minsize
                /\ Mirrored(Mirrored(e, r.seqLen), r.seqLen) = e)
    /\ [][(Written /\ ~refined) =>
            out'.features[Len(out'.features)].Read =
               <<nread, Handed(closed[Len(closed)]).qstart + 1,
                 Handed(closed[Len(closed)]).qend>>]_vars

\* C18 witness: an event of a minus-strand record whose mirror differs from
\* it is handed to the refiner.
WitnessMirrored ==
    /\ pc = "adjust"
    /\ r.reverse
    /\ QuerySpan(d) > 0
    /\ d.qstart # closed[Len(closed)].qstart

\* What an invocation of adjust was given.
InputsOf(a) == <<a.refiner, a.event, a.record, a.alnl, a.alnr>>

WitnessSameFailure ==
    \E a \in calls.last : \E b \in calls.seen :
        /\ InputsOf(a) = InputsOf(b)
        /\ ~a.outcome.ok
        /\ a.outcome.err # ""

\* The features of the left and of the right file.
LeftEvents == {id \in DOMAIN net.heap : id[1] = "a"}

RightEvents == {id \in DOMAIN net.heap : id[1] = "b"}

\* How many times the feature id is in the result.
TimesIn(c, id) == Cardinality({i \in 1..Len(c) : c[i] = id})

\* The jaccard similarity of two features is at least the fraction t.
Similar(x, y, t) ==
    LET lo == IF x.FeatStart > y.FeatStart THEN x.FeatStart ELSE y.FeatStart
        hi == IF x.FeatEnd < y.FeatEnd THEN x.FeatEnd ELSE y.FeatEnd
        both == IF x.SeqName = y.SeqName /\ hi > lo THEN hi - lo ELSE 0
        either == (x.FeatEnd - x.FeatStart) + (y.FeatEnd - y.FeatStart) - both
    IN  both * t.den >= t.num * either

\* The event of the right file matches some event of the left file.
MatchedInLeft(id) ==
    \E x \in LeftEvents : Similar(net.heap[x], net.heap[id], net.thresh)

\* C20: the result of union holds every event of a exactly once, every
\* event of b that matches no event of a exactly once, and no event of b
\* that matches an event of a; when a is empty it is the events of b.
UnionIsSetUnion ==
    net.pc = "done" =>
        /\ \A id \in LeftEvents : TimesIn(net.c, id) = 1
        /\ \A id \in RightEvents :
              TimesIn(net.c, id) = IF MatchedInLeft(id) THEN 0 ELSE 1

\* C20, what union does when no group of b has the number 0 and a is not
\* empty: every event of a is there once, and an event of b is there, once,
\* exactly when some event of a does not match it.
UnionAddsWhatSomeEventMisses ==
    (net.pc = "done" /\ 0 \notin DOMAIN net.b /\ LeftEvents # {}) =>
        /\ \A id \in LeftEvents : TimesIn(net.c, id) = 1
        /\ \A id \in RightEvents :
              TimesIn(net.c, id) =
                 IF \E x \in LeftEvents :
                       ~Similar(net.heap[x], net.heap[id], net.thresh)
                 THEN 1 ELSE 0

\* C20: union of an empty a returns nothing.
UnionOfEmptyIsEmpty ==
    (net.pc = "done" /\ LeftEvents = {}) => net.c = <<>>

\* C20: union has dropped an event of a: group 0 of b took its place.
WitnessLeftEventLost ==
    /\ net.pc = "done"
    /\ \E id \in LeftEvents : TimesIn(net.c, id) = 0

\* C20: union has returned an event of b that matches an event of a.
WitnessMatchedReturned ==
    /\ net.pc = "done"
    /\ 0 \notin DOMAIN net.b
    /\ \E id \in RightEvents : MatchedInLeft(id) /\ TimesIn(net.c, id) = 1

\* C20: union of an empty a and a b that is not empty has returned.
WitnessEmptyLeft ==
    /\ net.pc = "done"
    /\ LeftEvents = {}
    /\ RightEvents # {}

\* The sequence length of the file of bundle j.
FileTotal(j) ==
    SumRange([x \in 1..Len(bun.files[j]) |-> bun.in[bun.files[j][x]]], 1, Len(bun.files[j]))

\* The records written so far, file after file.
RECURSIVE Concatenated(_, _)
Concatenated(files, j) ==
    IF j = 0 THEN <<>> ELSE Concatenated(files, j - 1) \o files[j]

\* The records read so far that are at least as long as the cut-off.
RECURSIVE LongEnough(_)
LongEnough(n) ==
    IF n = 0 THEN <<>>
    ELSE IF bun.in[n] >= bun.cut THEN Append(LongEnough(n - 1), n)
    ELSE LongEnough(n - 1)

\* C21: every file bundle writes has a total sequence length no greater
\* than the threshold; the records shorter than the cut-off are left out
\* and the others are written in the order of the input.
BundlesWithinThreshold ==
    /\ \A j \in 1..Len(bun.files) : FileTotal(j) <= bun.bundle
    /\ Concatenated(bun.files, Len(bun.files)) = LongEnough(bun.read)

\* C21, what bundle keeps: a file is over the threshold only by a single
\* sequence, its last, itself longer than the threshold; the records kept
\* and their order are as claimed.
BundleOverOnlyAlone ==
    /\ \A j \in 1..Len(bun.files) :
          FileTotal(j) > bun.bundle =>
             bun.in[bun.files[j][Len(bun.files[j])]] = FileTotal(j)
    /\ Concatenated(bun.files, Len(bun.files)) = LongEnough(bun.read)

\* C21: bundle has written a file longer than the threshold and gone on to
\* the next.
WitnessOverlongBundle ==
    /\ bun.pc = "done"
    /\ \E j \in 1..Len(bun.files) : FileTotal(j) > bun.bundle
    /\ Len(bun.files) > 1

\* A step of the scan opens an event, closes one.
Opens == pc = "scan" /\ d.record = 0 /\ d'.record # 0

Closes == Len(closed') = Len(closed) + 1

\* C22: the scan starts at the second smoothed sample and opens an event
\* exactly when none is open, the previous smoothed cost is >= 0 and the
\* current one is < 0, at the current sample's positions plus one.  While
\* an event is open the previous sample's cost is < 0; an event is closed
\* only when one is open, so opens and closes alternate.
OpensOnFallingEdge ==
    /\ [](pc = "scan" => k >= 1)
    /\ []((pc = "scan" /\ d.record # 0) => smoothed[k].cost.num < 0)
    /\ [][(pc = "scan" /\ k < Len(smoothed)) =>
            LET prev == smoothed[k]
                cur == smoothed[k + 1]
            IN  /\ Opens <=> (d.record = 0 /\ prev.cost.num >= 0 /\ cur.cost.num < 0)
                /\ Opens => /\ d'.rstart = cur.ref + 1
                            /\ d'.qstart = cur.query + 1
                            /\ d'.record = nread
                            /\ ~Closes
                /\ Closes => d.record # 0]_vars

\* C22 witness: a second event of a record is open, after the first was
\* closed.
WitnessReopened ==
    /\ pc = "scan"
    /\ d.record # 0
    /\ Len(closed) >= 1
    /\ d.rstart > 0

ReferenceKinds == {"M", "=", "X", "D", "N"}

QueryKinds == {"M", "=", "X", "I", "S"}

\* One when the kind is in S, zero otherwise.
Counts(kind, S) == IF kind \in S THEN 1 ELSE 0

\* The position sequence f of the cost samples never decreases.
NonDecreasing(f) ==
    \A j \in 1..(Len(scores) - 1) : scores[j][f] <= scores[j + 1][f]

\* C23 as stated: the k-th cost sample carries the reference start plus the
\* number of reference-consuming units before it and the number of
\* query-consuming units before it (the first sample carries the start and
\* 0, and every unit adds one to the positions it consumes); both position
\* sequences never decrease and a unit that consumes neither leaves both
\* unchanged.
PositionsCountUnits ==
    (Live /\ scores # <<>>) =>
        /\ scores[1].ref = r.pos
        /\ scores[1].query = 0
        /\ \A j \in 1..(Len(scores) - 1) :
              LET kind == KindOfUnit(r.cigar, j)
              IN  /\ scores[j + 1].ref = scores[j].ref + Counts(kind, ReferenceKinds)
                  /\ scores[j + 1].query = scores[j].query + Counts(kind, QueryKinds)
        /\ NonDecreasing("ref")
        /\ NonDecreasing("query")

\* C23: the k-th cost sample carries the positions held before its unit:
\* the reference start plus the reference-consuming units before it, less
\* the units of a back operation, which step back on the reference, and
\* the number of query-consuming units before it.  The query positions
\* never decrease; the reference positions never decrease in a CIGAR with
\* no back operation; a unit that consumes neither leaves both unchanged.
PositionsBeforeUnit ==
    Live =>
        /\ Len(scores) = TotalLen(r.cigar)
        /\ scores # <<>> => (scores[1].ref = r.pos /\ scores[1].query = 0)
        /\ \A j \in 1..(Len(scores) - 1) :
              LET kind == KindOfUnit(r.cigar, j)
              IN  /\ scores[j + 1].ref = scores[j].ref + Counts(kind, ReferenceKinds)
                                           - Counts(kind, {"B"})
                  /\ scores[j + 1].query = scores[j].query + Counts(kind, QueryKinds)
                  /\ kind \in {"H", "P"} =>
                        /\ scores[j + 1].ref = scores[j].ref
                        /\ scores[j + 1].query = scores[j].query
        /\ NonDecreasing("query")
        /\ NoBack(r.cigar) => NonDecreasing("ref")

\* C23 witness: the walk of a record has stepped back on the reference
\* after moving forward.
WitnessSteppedBack ==
    /\ Live
    /\ \E j \in 2..(Len(scores) - 1) :
          /\ scores[j].ref > scores[1].ref
          /\ scores[j + 1].ref < scores[j].ref

\* adjust is about to be called for d and will reach the extraction of its
\* windows: the refiner is configured, d is not a deletion and the contig
\* of the record is known.
ReachesWindows ==
    /\ pc = "adjust"
    /\ ~br.nil
    /\ QuerySpan(d) >= RefSpan(d)
    /\ r.refName \in DOMAIN br.ref

\* Neither end of the reference window of d is clamped by the contig.
RefUnclamped ==
    /\ d.rstart - br.refWindow \div 2 >= 0
    /\ d.rend + br.refWindow \div 2 <= br.ref[r.refName]

Least(a, b) == IF a < b THEN a ELSE b

Most(a, b) == IF a > b THEN a ELSE b

\* The midpoint of the query coordinates of d.
QueryMid == (d.qstart + d.qend) \div 2

\* C25 as stated: the left query window is [max(0, m - queryWindow), m) and
\* the right one [m, min(m + queryWindow, read length)); each holds at most
\* queryWindow bases and they meet at the midpoint m.
QueryWindowsFromMidpoint ==
    ReachesWindows =>
        LET w == Windows(br, d, r)
        IN  /\ w.qOffLeft = Most(0, QueryMid - br.queryWindow)
            /\ w.qOffRight = QueryMid
            /\ w.qHi = Least(QueryMid + br.queryWindow, r.seqLen)
            /\ w.qOffRight - w.qOffLeft <= br.queryWindow
            /\ w.qHi - w.qOffRight <= br.queryWindow

\* C25: the left query window is [max(0, queryStart - queryWindow), m) and
\* the right one [m, min(queryEnd + queryWindow, read length)): they extend
\* queryWindow bases beyond the two ends of the event, hold at most
\* queryWindow bases plus their half of the event, and meet at the
\* midpoint m without overlap.
QueryWindowsBeyondEnds ==
    ReachesWindows =>
        LET w == Windows(br, d, r)
        IN  /\ d.qstart >= 0
            /\ w.qOffLeft = Most(0, d.qstart - br.queryWindow)
            /\ w.qOffRight = QueryMid
            /\ w.qHi = Least(d.qend + br.queryWindow, r.seqLen)
            /\ w.qOffRight - w.qOffLeft <= br.queryWindow + (QueryMid - d.qstart)
            /\ w.qHi - w.qOffRight <= br.queryWindow + (d.qend - QueryMid)

\* C25 witness: adjust is handed an event for which both query windows,
\* neither clamped, are longer than queryWindow.
WitnessLongQueryWindows ==
    /\ ReachesWindows
    /\ br.queryWindow > 0
    /\ d.qstart >= br.queryWindow
    /\ d.qend + br.queryWindow <= r.seqLen
    /\ Windows(br, d, r).qOffRight - Windows(br, d, r).qOffLeft > br.queryWindow
    /\ Windows(br, d, r).qHi - Windows(br, d, r).qOffRight > br.queryWindow

\* C26: on a successful refinement the refined queryStart is the offset of
\* the left query window plus the query end of the last segment of the left
\* alignment, and the refined queryEnd is the query midpoint plus the query
\* start of the first segment of the right alignment; so refined queryStart
\* <= midpoint <= refined queryEnd and both lie inside the read.
RefinedQueryFromAnchors ==
    (pc = "emit" /\ refined) =>
        LET m == (given.qstart + given.qend) \div 2
            qOffLeft == Most(0, given.qstart - br.queryWindow)
        IN  /\ d.qstart = qOffLeft + call.left[1].end
            /\ d.qend = m + call.right[1].start
            /\ d.qstart <= m
            /\ m <= d.qend
            /\ 0 <= d.qstart
            /\ d.qend <= r.seqLen

\* C26 witness: a refinement has moved both query coordinates of an event,
\* to either side of its midpoint.
WitnessQueryRefined ==
    /\ pc = "emit"
    /\ refined
    /\ d.qstart # given.qstart
    /\ d.qend # given.qend
    /\ d.qstart < (given.qstart + given.qend) \div 2
    /\ (given.qstart + given.qend) \div 2 < d.qend

\* C27 as stated: every feature handed to the writer has FeatStart <
\* FeatEnd; an event with refStart = refEnd is written one base long and no
\* event is written with its end before its start.
FeaturesHaveLength ==
    \A j \in 1..Len(out.features) :
        out.features[j].FeatStart < out.features[j].FeatEnd

\* C27, what is written: the feature of an event starts at its reference
\* start and ends at its reference end, one later when the two are equal;
\* its end is before its start when the event's is.
FeatureFollowsEvent ==
    [][Written =>
          LET f == out'.features[Len(out'.features)]
          IN  /\ f.FeatStart = d.rstart
              /\ f.FeatEnd = IF d.rend = d.rstart THEN d.rstart + 1 ELSE d.rend
              /\ refined => f.FeatStart < f.FeatEnd]_vars

\* C27: a feature has been written with its end before its start.
WitnessBackwardFeature ==
    \E j \in 1..Len(out.features) :
        out.features[j].FeatEnd < out.features[j].FeatStart

\* C28 as stated: for every event that reaches the extraction of the
\* windows the slice bounds are well formed: 0 <= rOff <= min(refEnd +
\* refWindow/2, contig length) and 0 <= qOffLeft <= m <= min(queryEnd +
\* queryWindow, read length).
SlicesWellFormed ==
    ReachesWindows =>
        /\ 0 <= RefOffset(d)
        /\ RefOffset(d) <= Least(d.rend + br.refWindow \div 2, br.ref[r.refName])
        /\ 0 <= Most(0, d.qstart - br.queryWindow)
        /\ Most(0, d.qstart - br.queryWindow) <= QueryMid
        /\ QueryMid <= Least(d.qend + br.queryWindow, r.seqLen)

\* C28, what holds: the bounds of the two read windows are well formed,
\* and those of the reference window are when the reference end of the
\* event is not before its start.
QuerySlicesWellFormed ==
    ReachesWindows =>
        /\ 0 <= Most(0, d.qstart - br.queryWindow)
        /\ Most(0, d.qstart - br.queryWindow) <= QueryMid
        /\ QueryMid <= Least(d.qend + br.queryWindow, r.seqLen)
        /\ 0 <= RefOffset(d)
        /\ RefSpan(d) >= 0 =>
              RefOffset(d) <= Least(d.rend + br.refWindow \div 2, br.ref[r.refName])

\* C28: adjust is handed an event whose reference window starts after its
\* end.
WitnessWindowInsideOut ==
    /\ ReachesWindows
    /\ RefOffset(d) > Least(d.rend + br.refWindow \div 2, br.ref[r.refName])

\* C29 as stated: every event handed to the feature writer, refined or
\* not, has a reference span or a query span of at least minSize with the
\* coordinates it is emitted with.
EmittedEventsRetained ==
    pc = "emit" => (RefSpan(d) >= minsize \/ QuerySpan(d) >= minsize)

\* C29, what holds: the event handed to adjust satisfies the retention test
\* and an event that is not refined is emitted with those coordinates.
UnrefinedEventsRetained ==
    /\ pc \in {"emit", "panic"} =>
          (RefSpan(given) >= minsize \/ QuerySpan(given) >= minsize)
    /\ (pc = "emit" /\ ~refined) =>
          (RefSpan(d) >= minsize \/ QuerySpan(d) >= minsize)

\* C29: a refined event is about to be written with both spans under the
\* minimum size.
WitnessRefinedTooSmall ==
    /\ pc = "emit"
    /\ refined
    /\ RefSpan(d) < minsize
    /\ QuerySpan(d) < minsize

\* C30 as stated: a run that ended after a failed write to the output sink,
\* whether of a header comment or of a feature, returns a non-nil error.
WriteFailureReported ==
    (pc = "done" /\ out.failed) => err # "nil"

\* C30, the part that holds: a failed feature write ends the run with the
\* write's error, and nothing is written after a failed write.
FeatureWriteFailureReported ==
    /\ (pc = "done" /\ out.failed /\ out.comments = 2) => err = "write"
    /\ out.failed => pc = "done"
    /\ out.comments < 2 => out.features = <<>>

\* C30 witness: a header comment failed to be written and the run ended
\* with a nil error.
WitnessHeaderFailureSilent ==
    /\ pc = "done"
    /\ out.failed
    /\ out.comments < 2
    /\ err = "nil"

====
